---- MODULE Spec2Model ----
(***************************************************************************)
(* bevy_kindly: entity kinds layered over an entity/component store.       *)
(*                                                                         *)
(* The store (World, Commands, CommandQueue) is the collaborator the       *)
(* library calls; it is modelled by what the library's calls rely on:      *)
(* an entity carries a map from component type to value, bundle insertion  *)
(* adds all components of the bundle at once and overwrites values of      *)
(* component types already present, commands are queued and applied in    *)
(* order when the queue is applied.                                        *)
(***************************************************************************)
EXTENDS Integers, Sequences, FiniteSets, TLC

\* ------------------------------------------------------------------ bounds
MaxEntities == 2   \* entity ids a run may hand out
MaxOps == 3        \* commands a run may queue plus bundles it may spawn directly

Entities == 1..MaxEntities

VARIABLES
    program,      \* which program of the repository runs (fixes the kinds declared)
    mode,         \* "idle" | "recording" (inside Execute's closure) | "applying"
    world,        \* World: entity -> (component type -> value)
    alive,        \* entities that exist in the World
    reserved,     \* number of entity ids handed out so far (Entities::reserve_entity)
    queue,        \* CommandQueue of the running Execute::execute
    cmds,         \* Option<EntityKindCommands<T>> the closure holds
    value,        \* Option<T>: the kind value the program holds
    ops,          \* number of commands queued and bundles spawned directly so far
    panicked,     \* a command panicked: the program is gone
    origin,       \* history: the entity cmds and value were produced for, and by what
    constructed,  \* history: <<e, T>> for every KindBundle<T> insertion into e
    last          \* history: the last operation that changed the World

vars == <<program, mode, world, alive, reserved, queue, cmds, value, ops,
          panicked, origin, constructed, last>>

\* Option<_>
None == <<>>
Some(x) == <<x>>

\* ------------------------------------------------------- kind declarations
\* tests/main.rs declares Container and Containable, examples/person.rs a
\* Person of (Name, Age), examples/multiple.rs and cast.rs a Person whose
\* bundle nests KindBundle<Agent>.
Programs == {"main", "person", "cast"}

KindsOf(p) ==
    CASE p = "main" -> {"Container", "Containable"}
      [] p = "person" -> {"Person"}
      [] p = "cast" -> {"Person", "Agent"}

AllKinds == {"Container", "Containable", "Person", "Agent"}

\* type DefaultBundle
DefaultSet(T) ==
    CASE T = "Container" -> {"Items"}
      [] T = "Containable" -> {}
      [] T = "Person" -> {"Friends"}
      [] T = "Agent" -> {"Position"}

\* type Bundle: the component fields
MandatorySet(T) ==
    CASE T = "Container" -> {"Capacity"}
      [] T = "Containable" -> {}
      [] T = "Person" -> {"Name", "Age"}
      [] T = "Agent" -> {"Speed", "Clearance"}

\* type Bundle: the #[bundle] fields holding another kind's KindBundle
NestedKinds(p, T) == IF p = "cast" /\ T = "Person" THEN <<"Agent">> ELSE <<>>

\* T::Bundle: Clone
BundleIsClone(p, T) == T = "Containable" \/ (T = "Person" /\ p = "person")

\* T::Bundle: Default
BundleIsDefault(T) == T = "Containable"

\* Kind<T>, the private marker component type of kind T
Marker(T) ==
    CASE T = "Container" -> "Kind<Container>"
      [] T = "Containable" -> "Kind<Containable>"
      [] T = "Person" -> "Kind<Person>"
      [] T = "Agent" -> "Kind<Agent>"

\* Component types application code can name (Kind<T> is private to the crate)
PublicComponents(p) ==
    CASE p = "main" -> {"Items", "Capacity"}
      [] p = "person" -> {"Friends", "Name", "Age"}
      [] p = "cast" -> {"Friends", "Name", "Age", "Position", "Speed",
                        "Clearance", "Destination"}

\* Kind::default()
Kind_default(T) == [T |-> T]

\* Default::default() of a component type in some DefaultBundle
Component_default(c) ==
    CASE c = "Items" -> <<>>
      [] c = "Friends" -> <<>>
      [] c = "Position" -> <<0, 0>>

\* T::DefaultBundle::default()
DefaultBundle_default(T) == [c \in DefaultSet(T) |-> Component_default(c)]

\* --------------------------------------------------------------- KindBundle
KindBundle_new_NoDefaults(T, bundle) ==
    [kind |-> Kind_default(T), default_bundle |-> <<>>, bundle |-> bundle]

\* KindBundle::new
KindBundle_new(T, bundle) ==
    [kind |-> Kind_default(T),
     default_bundle |-> DefaultBundle_default(T),
     bundle |-> bundle]

KindBundle_clone_NoDefaults(self) ==
    [kind |-> Kind_default(self.kind.T), default_bundle |-> <<>>, bundle |-> self.bundle]

\* Clone for KindBundle
KindBundle_clone(self) ==
    [kind |-> Kind_default(self.kind.T),
     default_bundle |-> DefaultBundle_default(self.kind.T),
     bundle |-> self.bundle]

\* T::Bundle::default(), for the one kind whose bundle is Default: ()
Bundle_default(T) == [comps |-> <<>>, nested |-> <<>>]

\* Default for KindBundle
KindBundle_default(T) == KindBundle_new(T, Bundle_default(T))

\* The values a program passes as T::Bundle: a record of the component
\* fields and the nested kind bundles.
SpeedClearance(s, c) == [x \in {"Speed", "Clearance"} |-> IF x = "Speed" THEN s ELSE c]

NameAge(n, a) == [x \in {"Name", "Age"} |-> IF x = "Name" THEN n ELSE a]

Bundles(p, T) ==
    CASE T = "Container" ->
            {[comps |-> [c \in {"Capacity"} |-> n], nested |-> <<>>] : n \in {0, 1}}
      [] T = "Containable" -> {[comps |-> <<>>, nested |-> <<>>]}
      [] T = "Agent" -> {[comps |-> SpeedClearance(5, 1), nested |-> <<>>]}
      [] T = "Person" /\ p = "person" ->
            {[comps |-> NameAge("Alice", 25), nested |-> <<>>],
             [comps |-> NameAge("Bob", 30), nested |-> <<>>]}
      [] T = "Person" /\ p = "cast" ->
            {[comps |-> NameAge("Alice", 25),
              nested |-> <<KindBundle_new("Agent", [comps |-> SpeedClearance(10, 2),
                                                    nested |-> <<>>])>>]}

\* f overridden by g on g's domain
Merge(g, f) == [c \in (DOMAIN g) \cup (DOMAIN f) |-> IF c \in DOMAIN g THEN g[c] ELSE f[c]]

Components_NoNested(b) ==
    Merge((Marker(b.kind.T) :> "PhantomData"), Merge(b.default_bundle, b.bundle.comps))

RECURSIVE Components(_)
\* #[derive(Bundle)] on KindBundle: the components of kind, default_bundle
\* and bundle, nested bundles flattened
Components(b) ==
    LET own == Merge((Marker(b.kind.T) :> "PhantomData"),
                     Merge(b.default_bundle, b.bundle.comps))
    IN  IF b.bundle.nested = <<>> THEN own
        ELSE Merge(own, Components(b.bundle.nested[1]))

RECURSIVE KindsIn(_)
\* the kinds whose marker a KindBundle value carries
KindsIn(b) ==
    {b.kind.T} \cup (IF b.bundle.nested = <<>> THEN {} ELSE KindsIn(b.bundle.nested[1]))

RECURSIVE ComponentTypes(_, _)
\* the component types of the bundle type KindBundle<T>
ComponentTypes(p, T) ==
    {Marker(T)} \cup DefaultSet(T) \cup MandatorySet(T)
        \cup (IF NestedKinds(p, T) = <<>> THEN {}
              ELSE ComponentTypes(p, NestedKinds(p, T)[1]))

\* ------------------------------------------------------------ kind values
\* #[derive(EntityKind)]: unsafe fn from_entity_unchecked(entity) -> Self(entity)
from_entity_unchecked(T, entity) == [kind |-> T, id |-> entity]

\* #[derive(EntityKind)]: fn entity(&self) -> self.0
EntityKind_entity(self) == self.id

\* ------------------------------------------------------ EntityKindCommands
\* EntityKindCommands::from_entity_unchecked: Self(entity, PhantomData)
EntityKindCommands_from_entity_unchecked(ec, T) == [ec |-> ec, T |-> T]

\* EntityKindCommands::entity: self.0.id()
EntityKindCommands_entity(self) == self.ec.id

\* EntityKindCommands::get
EntityKindCommands_get(self) ==
    from_entity_unchecked(self.T, EntityKindCommands_entity(self))

\* EntityKindCommands::as_entity
EntityKindCommands_as_entity(self) == self.ec

\* EntityKindCommands::insert: the command self.0.insert(component) queues
EntityKindCommands_insert(self, c, v) ==
    [op |-> "Insert", entity |-> self.ec.id, arg |-> <<c, v>>]

EntityKindCommands_remove_Marker(self, c) ==
    [op |-> "Remove", entity |-> self.ec.id, arg |-> Marker(self.T)]

EntityKindCommands_remove_Kind(self, c) ==
    [op |-> "RemoveBundle", entity |-> self.ec.id, arg |-> self.T]

\* EntityKindCommands::remove: the command self.0.remove::<S>() queues
EntityKindCommands_remove(self, c) ==
    [op |-> "Remove", entity |-> self.ec.id, arg |-> c]

\* as_entity().remove_bundle::<KindBundle<T>>(): KindBundle is a public Bundle
remove_kind_bundle(self, T) ==
    [op |-> "RemoveBundle", entity |-> EntityKindCommands_as_entity(self).id, arg |-> T]

insert_kind_MarkerAlone(ec, T, bundle) ==
    [command |-> [op |-> "Insert", entity |-> ec.id, arg |-> <<Marker(T), "PhantomData">>],
     wrapper |-> EntityKindCommands_from_entity_unchecked(ec, T)]

\* InsertKind::insert_kind: the queued insertion and the wrapper returned
insert_kind(ec, T, bundle) ==
    [command |-> [op |-> "InsertBundle", entity |-> ec.id,
                  arg |-> KindBundle_new(T, bundle)],
     wrapper |-> EntityKindCommands_from_entity_unchecked(ec, T)]

\* KindCommands::spawn_with_kind: self.spawn().insert_kind(bundle), where
\* spawn() reserves the next entity id
spawn_with_kind(next, T, bundle) == insert_kind([id |-> next], T, bundle)

with_kind_Spawn(kind) ==
    EntityKindCommands_from_entity_unchecked([id |-> reserved + 1], kind.kind)

\* KindCommands::with_kind
with_kind(kind) ==
    EntityKindCommands_from_entity_unchecked([id |-> EntityKind_entity(kind)], kind.kind)

\* InsertIntoContainer::insert_into_container: the closure added to the queue
insert_into_container(self, container) ==
    [op |-> "InsertIntoContainer", entity |-> container.id,
     arg |-> EntityKindCommands_get(self)]

\* --------------------------------------------------------------- reading
try_with_kind_AnyKind(w, e, T) ==
    IF \E U \in AllKinds : Marker(U) \in DOMAIN w[e]
    THEN Some(from_entity_unchecked(T, e)) ELSE None

\* TryWithKind::try_with_kind on the EntityRef of entity e
try_with_kind(w, e, T) ==
    IF Marker(T) \in DOMAIN w[e] THEN Some(from_entity_unchecked(T, e)) ELSE None

WithKind_AnyMarker(w, al, T) == {e \in al : \E U \in AllKinds : Marker(U) \in DOMAIN w[e]}

\* WithKind<T>: the filter With<Kind<T>>
WithKind(w, al, T) == {e \in al : Marker(T) \in DOMAIN w[e]}

\* EntityWithKindItem::entity
EntityWithKindItem_entity(item) == item.entity

\* EntityWithKindItem::get
EntityWithKindItem_get(item, T) == from_entity_unchecked(T, item.entity)

\* impl From<Person> for Agent
Agent_from_Person(person) == from_entity_unchecked("Agent", person.id)

\* ------------------------------------------------------ applying commands
Without(f, S) == [c \in (DOMAIN f) \ S |-> f[c]]

\* the closure of insert_into_container panics: an expect() on a missing component
CommandPanics(w, c) ==
    /\ c.op = "InsertIntoContainer"
    /\ ~ {"Capacity", "Items"} \subseteq DOMAIN w[c.entity]

insert_bundle_Replace(old, b) == Components(b)

\* insert_bundle on an entity: all components of the bundle at once,
\* over the values of the types already there
insert_bundle(old, b) == Merge(Components(b), old)

ApplyCommand_OffByOne(w, c) ==
    LET old == w[c.entity] IN
    CASE c.op = "InsertBundle" -> insert_bundle(old, c.arg)
      [] c.op = "Insert" -> Merge((c.arg[1] :> c.arg[2]), old)
      [] c.op = "Remove" -> Without(old, {c.arg})
      [] c.op = "RemoveBundle" -> Without(old, ComponentTypes(program, c.arg))
      [] c.op = "InsertIntoContainer" ->
            IF Len(old["Items"]) <= old["Capacity"]
            THEN [old EXCEPT !["Items"] = Append(@, c.arg)]
            ELSE old

\* the components of entity c.entity after command c
ApplyCommand(w, c) ==
    LET old == w[c.entity] IN
    CASE c.op = "InsertBundle" -> insert_bundle(old, c.arg)
      [] c.op = "Insert" -> Merge((c.arg[1] :> c.arg[2]), old)
      [] c.op = "Remove" -> Without(old, {c.arg})
      [] c.op = "RemoveBundle" -> Without(old, ComponentTypes(program, c.arg))
      [] c.op = "InsertIntoContainer" ->
            IF Len(old["Items"]) < old["Capacity"]
            THEN [old EXCEPT !["Items"] = Append(@, c.arg)]
            ELSE old

\* ------------------------------------------------------------------- Init
Op(op, e, T, via, arg) == [op |-> op, entity |-> e, kind |-> T, via |-> via, arg |-> arg]

NoOp == Op("init", 0, "", "", <<>>)

NoOrigin == [cmds |-> 0, value |-> 0, via |-> "", wrapper |-> ""]

\* World::new() and nothing queued
Init ==
    /\ program \in Programs
    /\ mode = "idle"
    /\ world = [e \in Entities |-> <<>>]
    /\ alive = {}
    /\ reserved = 0
    /\ queue = <<>>
    /\ cmds = None
    /\ value = None
    /\ ops = 0
    /\ panicked = FALSE
    /\ origin = NoOrigin
    /\ constructed = {}
    /\ last = NoOp

\* ------------------------------------------------------ Execute::execute
\* execute: a fresh CommandQueue, Commands over it, the closure starts
Execute_begin ==
    /\ ~panicked /\ mode = "idle" /\ ops < MaxOps
    /\ mode' = "recording"
    /\ queue' = <<>>
    /\ UNCHANGED <<program, world, alive, reserved, cmds, value, ops, panicked,
                   origin, constructed, last>>

Reversed(q) == [i \in DOMAIN q |-> q[Len(q) + 1 - i]]

Execute_return_Reversed ==
    /\ ~panicked /\ mode = "recording"
    /\ mode' = IF queue = <<>> THEN "idle" ELSE "applying"
    /\ queue' = Reversed(queue)
    /\ alive' = 1..reserved
    /\ cmds' = None
    /\ origin' = [origin EXCEPT !.cmds = 0, !.wrapper = ""]
    /\ UNCHANGED <<program, world, reserved, value, ops, panicked, constructed, last>>

\* execute: the closure returned; queue.apply(world) starts by flushing the
\* reserved entities into the World. With nothing queued execute returns.
Execute_return ==
    /\ ~panicked /\ mode = "recording"
    /\ mode' = IF queue = <<>> THEN "idle" ELSE "applying"
    /\ alive' = 1..reserved
    /\ cmds' = None
    /\ origin' = [origin EXCEPT !.cmds = 0, !.wrapper = ""]
    /\ UNCHANGED <<program, world, reserved, queue, value, ops, panicked,
                   constructed, last>>

\* queue.apply(world): the next command of the queue runs; after the last
\* one execute returns
Apply ==
    /\ ~panicked /\ mode = "applying" /\ queue # <<>>
    /\ LET q == Head(queue)
           c == q.c
       IN  IF CommandPanics(world, c)
           THEN /\ panicked' = TRUE
                /\ last' = Op("panic", c.entity, q.kind, q.via, q.input)
                /\ UNCHANGED <<world, queue, constructed, mode>>
           ELSE /\ world' = [world EXCEPT ![c.entity] = ApplyCommand(world, c)]
                /\ queue' = Tail(queue)
                /\ mode' = IF Tail(queue) = <<>> THEN "idle" ELSE "applying"
                /\ constructed' =
                      IF c.op = "InsertBundle"
                      THEN constructed \cup {<<c.entity, T>> : T \in KindsIn(c.arg)}
                      ELSE constructed
                /\ last' = Op(c.op, c.entity, q.kind, q.via, q.input)
                /\ UNCHANGED panicked
    /\ UNCHANGED <<program, alive, reserved, cmds, value, ops, origin>>

\* ---------------------------------------------------- inside the closure
\* a queued command, with the wrapper kind, the operation and the input it
\* comes from, and the call that returned the wrapper it was queued through
Queued(c, T, via, input) ==
    [c |-> c, kind |-> T, via |-> via, input |-> input,
     from |-> IF via \in {"spawn_with_kind", "insert_kind"} THEN "" ELSE origin.wrapper]

Recording == ~panicked /\ mode = "recording" /\ ops < MaxOps

SpawnWithKind_Immediate(T, bundle) ==
    /\ Recording /\ reserved < MaxEntities
    /\ LET r == spawn_with_kind(reserved + 1, T, bundle)
       IN  /\ world' = [world EXCEPT ![reserved + 1] = insert_bundle(<<>>, r.command.arg)]
           /\ cmds' = Some(r.wrapper)
    /\ alive' = alive \cup {reserved + 1}
    /\ reserved' = reserved + 1
    /\ ops' = ops + 1
    /\ origin' = [origin EXCEPT !.cmds = reserved + 1, !.wrapper = "spawn_with_kind"]
    /\ constructed' = constructed \cup {<<reserved + 1, T>>}
    /\ last' = Op("InsertBundle", reserved + 1, T, "spawn_with_kind", bundle)
    /\ UNCHANGED <<program, mode, queue, value, panicked>>

\* commands.spawn_with_kind::<T>(bundle)
SpawnWithKind(T, bundle) ==
    /\ Recording /\ reserved < MaxEntities
    /\ LET r == spawn_with_kind(reserved + 1, T, bundle)
       IN  /\ queue' = Append(queue, Queued(r.command, T, "spawn_with_kind", bundle))
           /\ cmds' = Some(r.wrapper)
    /\ reserved' = reserved + 1
    /\ ops' = ops + 1
    /\ origin' = [origin EXCEPT !.cmds = reserved + 1, !.wrapper = "spawn_with_kind"]
    /\ UNCHANGED <<program, mode, world, alive, value, panicked, constructed, last>>

\* commands.entity(kind.entity()).insert_kind::<T>(bundle), on the entity of
\* the kind value the program holds
InsertKind(T, bundle) ==
    /\ Recording /\ value # None
    /\ LET r == insert_kind([id |-> EntityKind_entity(value[1])], T, bundle)
       IN  /\ queue' = Append(queue, Queued(r.command, T, "insert_kind", bundle))
           /\ cmds' = Some(r.wrapper)
    /\ ops' = ops + 1
    /\ origin' = [origin EXCEPT !.cmds = origin.value, !.wrapper = "insert_kind"]
    /\ UNCHANGED <<program, mode, world, alive, reserved, value, panicked, constructed,
                   last>>

\* commands.with_kind(&kind) on the kind value the program holds
WithKindStep ==
    /\ ~panicked /\ mode = "recording" /\ value # None
    /\ cmds' = Some(with_kind(value[1]))
    /\ origin' = [origin EXCEPT !.cmds = origin.value, !.wrapper = "with_kind"]
    /\ UNCHANGED <<program, mode, world, alive, reserved, queue, value, ops,
                   panicked, constructed, last>>

\* .get() on the wrapper
Get ==
    /\ ~panicked /\ mode = "recording" /\ cmds # None
    /\ value' = Some(EntityKindCommands_get(cmds[1]))
    /\ origin' = [origin EXCEPT !.value = origin.cmds, !.via = "get"]
    /\ UNCHANGED <<program, mode, world, alive, reserved, queue, cmds, ops,
                   panicked, constructed, last>>

\* the components a program inserts through a wrapper: an Agent's
\* Destination (NavigateTo::navigate_to), a Person's replaced Friends list
InsertInputs(p, self) ==
    CASE self.T = "Agent" -> {<<"Destination", <<5, 10>>>>}
      [] self.T = "Person" /\ p = "person" ->
            {<<"Friends", <<EntityKindCommands_get(self)>>>>}
      [] OTHER -> {}

\* .insert(component) on the wrapper
Insert ==
    /\ Recording /\ cmds # None
    /\ \E cv \in InsertInputs(program, cmds[1]) :
          queue' = Append(queue, Queued(EntityKindCommands_insert(cmds[1], cv[1], cv[2]),
                                        cmds[1].T, "insert", cv[1]))
    /\ ops' = ops + 1
    /\ UNCHANGED <<program, mode, world, alive, reserved, cmds, value, panicked, origin,
                   constructed, last>>

\* .remove::<S>() on the wrapper, S a component type the program can name
Remove(S) ==
    /\ Recording /\ cmds # None
    /\ queue' = Append(queue, Queued(EntityKindCommands_remove(cmds[1], S),
                                     cmds[1].T, "remove", S))
    /\ ops' = ops + 1
    /\ UNCHANGED <<program, mode, world, alive, reserved, cmds, value, panicked, origin,
                   constructed, last>>

\* .as_entity().remove_bundle::<KindBundle<T>>() on the wrapper
RemoveKindBundle(T) ==
    /\ Recording /\ cmds # None
    /\ queue' = Append(queue, Queued(remove_kind_bundle(cmds[1], T),
                                     cmds[1].T, "remove_bundle", T))
    /\ ops' = ops + 1
    /\ UNCHANGED <<program, mode, world, alive, reserved, cmds, value, panicked, origin,
                   constructed, last>>

\* .insert_into_container(&container) on a Containable wrapper
InsertIntoContainer ==
    /\ Recording /\ cmds # None /\ cmds[1].T = "Containable"
    /\ value # None /\ value[1].kind = "Container"
    /\ queue' = Append(queue, Queued(insert_into_container(cmds[1], value[1]),
                                     cmds[1].T, "insert_into_container", value[1]))
    /\ ops' = ops + 1
    /\ UNCHANGED <<program, mode, world, alive, reserved, cmds, value, panicked, origin,
                   constructed, last>>

\* ----------------------------------------------------------- reading
\* world.entity(e).try_with_kind::<T>(); World::entity wants e to exist
TryWithKind(e, T) ==
    /\ ~panicked /\ mode = "idle" /\ e \in alive
    /\ value' = try_with_kind(world, e, T)
    /\ origin' = [origin EXCEPT !.value = e, !.via = "try_with_kind"]
    /\ UNCHANGED <<program, mode, world, alive, reserved, queue, cmds, ops,
                   panicked, constructed, last>>

\* a system iterating Query<EntityWithKind<T>> takes the item of entity e
Query(e, T) ==
    /\ ~panicked /\ mode = "idle" /\ e \in WithKind(world, alive, T)
    /\ value' = Some(EntityWithKindItem_get([entity |-> e], T))
    /\ origin' = [origin EXCEPT !.value = e, !.via = "query"]
    /\ UNCHANGED <<program, mode, world, alive, reserved, queue, cmds, ops,
                   panicked, constructed, last>>

\* person.into() in a system: the Person the program holds becomes an Agent
Upcast ==
    /\ ~panicked /\ mode = "recording" /\ program = "cast"
    /\ value # None /\ value[1].kind = "Person"
    /\ value' = Some(Agent_from_Person(value[1]))
    /\ origin' = [origin EXCEPT !.via = "upcast"]
    /\ UNCHANGED <<program, mode, world, alive, reserved, queue, cmds, ops,
                   panicked, constructed, last>>

\* ------------------------------------------------- KindBundle, directly
\* the KindBundle<T> a program builds: KindBundle::new(bundle),
\* KindBundle::new(bundle).clone() or KindBundle::default()
Built(how, T, bundle) ==
    CASE how = "new" -> KindBundle_new(T, bundle)
      [] how = "clone" -> KindBundle_clone(KindBundle_new(T, bundle))
      [] how = "default" -> KindBundle_default(T)

\* how each program builds the bundles it spawns directly
Hows(p) ==
    CASE p = "main" -> {"new", "default"}
      [] p = "person" -> {"new", "clone"}
      [] p = "cast" -> {"new"}

\* world.spawn(b): the bundle is inserted into a new entity at once
SpawnBundle(how, T, bundle) ==
    /\ ~panicked /\ mode = "idle" /\ reserved < MaxEntities /\ ops < MaxOps
    /\ ops' = ops + 1
    /\ how = "clone" => BundleIsClone(program, T)
    /\ how = "default" => BundleIsDefault(T) /\ bundle = Bundle_default(T)
    /\ how \in Hows(program)
    /\ LET b == Built(how, T, bundle)
           e == reserved + 1
       IN  /\ world' = [world EXCEPT ![e] = insert_bundle(<<>>, b)]
           /\ constructed' = constructed \cup {<<e, U>> : U \in KindsIn(b)}
           /\ last' = Op("InsertBundle", e, T, how, bundle)
    /\ reserved' = reserved + 1
    /\ alive' = alive \cup {reserved + 1}
    /\ UNCHANGED <<program, mode, queue, cmds, value, panicked, origin>>

\* ------------------------------------------------------------------- Next
Construct ==
    \/ Execute_begin
    \/ Execute_return
    \/ Apply
    \/ \E T \in KindsOf(program) : \E b \in Bundles(program, T) : SpawnWithKind(T, b)
    \/ \E T \in KindsOf(program) : \E b \in Bundles(program, T) : InsertKind(T, b)
    \/ WithKindStep
    \/ Get
    \/ Insert
    \/ InsertIntoContainer
    \/ \E how \in {"new", "clone", "default"} : \E T \in KindsOf(program) :
          \E b \in Bundles(program, T) : SpawnBundle(how, T, b)
    \/ \E e \in Entities : \E T \in KindsOf(program) : TryWithKind(e, T)
    \/ \E e \in Entities : \E T \in KindsOf(program) : Query(e, T)
    \/ Upcast

Next ==
    \/ Construct
    \/ \E S \in PublicComponents(program) : Remove(S)
    \/ \E T \in KindsOf(program) : RemoveKindBundle(T)

Spec == Init /\ [][Next]_vars

\* only the construction paths and reading: nothing is ever removed
SpecConstruct == Init /\ [][Construct]_vars

\* ----------------------------------------------------------------- claims
Has(e, c) == c \in DOMAIN world[e]

\* entity e carries what inserting KindBundle::<T>::new(input) must give it
RECURSIVE Carries(_, _, _)
Carries(e, T, input) ==
    /\ Has(e, Marker(T))
    /\ \A c \in MandatorySet(T) : Has(e, c) /\ world[e][c] = input.comps[c]
    /\ \A c \in DefaultSet(T) : Has(e, c) /\ world[e][c] = Component_default(c)
    /\ \A i \in DOMAIN input.nested :
          Carries(e, input.nested[i].kind.T, input.nested[i].bundle)

\* C1: once the insertion queued by spawn_with_kind::<T>(input) is applied,
\* the spawned entity carries Marker(T), every mandatory component with the
\* value supplied and every default component with its default value.
C1_ConstructionComplete ==
    (last.op = "InsertBundle" /\ last.via = "spawn_with_kind")
        => /\ last.entity \in alive
           /\ Carries(last.entity, last.kind, last.arg)

C1_Witness ==
    /\ last.op = "InsertBundle" /\ last.via = "spawn_with_kind"
    /\ last.kind = "Container" /\ mode = "idle"
    /\ world[last.entity]["Capacity"] = 1
    /\ world[last.entity]["Items"] = <<>>

\* C2: try_with_kind::<T>(E) returns a value exactly when E carries
\* Marker(T) at the call; the value is T's and its identifier is E; an
\* entity no KindBundle<T> was ever inserted into gets none.
C2_TryWithKindIffMarker ==
    [][\A e \in Entities : \A T \in AllKinds :
          TryWithKind(e, T) =>
              /\ (value' # None) <=> Has(e, Marker(T))
              /\ value' # None =>
                    value'[1].kind = T /\ EntityKind_entity(value'[1]) = e
              /\ <<e, T>> \notin constructed => value' = None]_vars

C2_Witness ==
    /\ origin.via = "try_with_kind" /\ value = None
    /\ origin.value \in alive
    /\ Has(origin.value, "Capacity") /\ Has(origin.value, Marker("Container"))
    /\ ~Has(origin.value, Marker("Containable"))

\* C3: on the construction paths no entity carries Marker(T) without every
\* component type of KindBundle<T> (defaults, mandatory components, nested
\* kinds): they arrive in the one insertion that brings the marker.
C3_MarkerImpliesComponents ==
    \A e \in Entities : \A T \in KindsOf(program) :
        Has(e, Marker(T)) => ComponentTypes(program, T) \subseteq DOMAIN world[e]

C3_Witness ==
    /\ last.op = "InsertBundle" /\ last.via = "insert_kind"
    /\ Has(last.entity, Marker("Person")) /\ Has(last.entity, Marker("Agent"))
    /\ {"Name", "Age", "Friends", "Speed", "Clearance", "Position"}
          \subseteq DOMAIN world[last.entity]

\* the step applies the queued command q, and it does not panic
Applies(q) ==
    /\ mode = "applying" /\ queue # <<>> /\ Head(queue) = q
    /\ queue' = Tail(queue) /\ ~panicked'

\* component c of entity e is there with the same value after the step
Untouched(e, c) == c \in DOMAIN world'[e] /\ world'[e][c] = world[e][c]

\* the step applies an insert_kind::<T> to an entity that carries kind U
InsertsOver(q, T, U) ==
    /\ Applies(q) /\ q.via = "insert_kind" /\ q.kind = T /\ U # T
    /\ ComponentTypes(program, U) \subseteq DOMAIN world[q.c.entity]

BothKinds(w, e, T, U) == try_with_kind(w, e, T) # None /\ try_with_kind(w, e, U) # None

\* C4 as claimed: applying insert_kind::<T> to an entity carrying kind U
\* leaves U's marker and every component of U untouched, and both checks
\* succeed afterwards.
C4_Original ==
    [][\A i \in DOMAIN queue : \A T, U \in KindsOf(program) :
          InsertsOver(queue[i], T, U) =>
              /\ \A c \in ComponentTypes(program, U) : Untouched(queue[i].c.entity, c)
              /\ BothKinds(world', queue[i].c.entity, T, U)]_vars

\* C4 as amended: applying insert_kind::<T> to an entity carrying kind U
\* leaves untouched every component of the entity whose type is not a
\* component type of KindBundle<T> (U's marker is among them), gives the
\* types KindBundle<T> shares with KindBundle<U> the values of T's bundle,
\* and both checks succeed afterwards.
C4_InsertKindFrame ==
    [][\A i \in DOMAIN queue : \A T, U \in KindsOf(program) :
          InsertsOver(queue[i], T, U) =>
              LET e == queue[i].c.entity IN
              /\ \A c \in DOMAIN world[e] \ ComponentTypes(program, T) : Untouched(e, c)
              /\ Untouched(e, Marker(U))
              /\ \A c \in ComponentTypes(program, T) \cap ComponentTypes(program, U) :
                    c \in DOMAIN world'[e]
                    /\ world'[e][c] = Components(KindBundle_new(T, queue[i].input))[c]
              /\ BothKinds(world', e, T, U)]_vars

C4_Witness ==
    /\ last.op = "InsertBundle" /\ last.via = "insert_kind" /\ last.kind = "Containable"
    /\ Has(last.entity, Marker("Container")) /\ Has(last.entity, Marker("Containable"))
    /\ world[last.entity]["Capacity"] = 1
    /\ BothKinds(world, last.entity, "Container", "Containable")

\* C5: every wrapper and every kind value reports the entity it was
\* produced for; with_kind(&k).get().entity() = k.entity().
C5_IdentifierFidelity ==
    /\ value # None => EntityKind_entity(value[1]) = origin.value
    /\ cmds # None =>
          /\ EntityKindCommands_entity(cmds[1]) = origin.cmds
          /\ EntityKind_entity(EntityKindCommands_get(cmds[1])) = origin.cmds

\* a wrapper with nothing queued comes from with_kind; get() was called on it
C5_Witness ==
    /\ mode = "recording" /\ queue = <<>> /\ cmds # None
    /\ origin.via = "get" /\ value # None
    /\ EntityKind_entity(value[1]) = 2 /\ origin.cmds = 2

LosesMarker(e, T) == Marker(T) \in DOMAIN world[e] /\ Marker(T) \notin DOMAIN world'[e]

\* C6 as claimed: once an entity carries Marker(T) it carries it for ever.
C6_Original ==
    [][\A e \in Entities : \A T \in AllKinds : ~LosesMarker(e, T)]_vars

\* C6 as amended: an entity loses Marker(T) only when a removal of
\* KindBundle<U> as a bundle, queued through as_entity(), is applied to it
\* with T being U or a kind nested in U's bundle; no other operation of the
\* layer removes a marker.
C6_MarkerLostOnlyWithBundle ==
    [][\A e \in Entities : \A T \in AllKinds :
          LosesMarker(e, T) =>
              /\ Applies(Head(queue))
              /\ Head(queue).c.op = "RemoveBundle" /\ Head(queue).via = "remove_bundle"
              /\ Head(queue).c.entity = e
              /\ Marker(T) \in ComponentTypes(program, Head(queue).c.arg)]_vars

C6_Witness ==
    /\ last.op = "RemoveBundle" /\ last.via = "remove_bundle"
    /\ <<last.entity, last.arg>> \in constructed
    /\ ~Has(last.entity, Marker(last.arg))

\* a queued insertion that will give entity e the marker of kind T
PendingInsertion(e, T) ==
    \E i \in DOMAIN queue :
        /\ queue[i].c.op = "InsertBundle" /\ queue[i].c.entity = e
        /\ T \in KindsIn(queue[i].c.arg)

\* C7: while the closure runs (spawn_with_kind, insert_kind, with_kind, the
\* wrapper's insert / remove / get) the World does not change; get() on the
\* wrapper of a pending spawn names the entity a queued insertion will give
\* the kind, and applying that insertion gives it the marker.
C7_DeferredMutation ==
    /\ [](mode = "recording" /\ value # None /\ origin.via = "get"
             /\ EntityKind_entity(value[1]) \notin alive
          => PendingInsertion(EntityKind_entity(value[1]), value[1].kind))
    /\ [][/\ mode = "recording" /\ mode' = "recording"
             => world' = world /\ alive' = alive
          /\ \A e \in Entities : \A T \in AllKinds :
                (PendingInsertion(e, T) /\ Applies(Head(queue))
                 /\ Head(queue).c.op = "InsertBundle" /\ Head(queue).c.entity = e
                 /\ T \in KindsIn(Head(queue).c.arg))
                => Marker(T) \in DOMAIN world'[e]]_vars

C7_Witness ==
    /\ mode = "recording" /\ origin.via = "get" /\ value # None
    /\ EntityKind_entity(value[1]) \notin alive
    /\ world[EntityKind_entity(value[1])] = <<>>
    /\ Len(queue) = 2 /\ queue[1].via = "spawn_with_kind" /\ queue[2].via = "remove"

\* C8: applying the wrapper's remove::<C>() for a component C of kind T's
\* required set takes C away and nothing else: the marker and every other
\* component stay as they were, other entities are unchanged, nothing
\* panics, and try_with_kind::<T> still returns a value though C is missing.
C8_SilentDrift ==
    [][\A T \in AllKinds :
          (/\ Applies(Head(queue)) /\ Head(queue).via = "remove"
           /\ Head(queue).kind = T
           /\ Head(queue).input \in MandatorySet(T) \cup DefaultSet(T)
           /\ Has(Head(queue).c.entity, Marker(T)))
          => LET e == Head(queue).c.entity
                 C == Head(queue).input
             IN  /\ DOMAIN world'[e] = DOMAIN world[e] \ {C}
                 /\ \A c \in DOMAIN world'[e] : world'[e][c] = world[e][c]
                 /\ \A o \in Entities \ {e} : world'[o] = world[o]
                 /\ try_with_kind(world', e, T) = Some(from_entity_unchecked(T, e))]_vars

C8_Witness ==
    /\ last.op = "Remove" /\ last.via = "remove" /\ last.kind = "Agent"
    /\ last.arg = "Speed" /\ ~Has(last.entity, "Speed")
    /\ Has(last.entity, Marker("Agent")) /\ Has(last.entity, "Clearance")
    /\ try_with_kind(world, last.entity, "Agent") # None
    /\ ~panicked

C10_DefaultsFresh ==
    /\ [](last.op = "InsertBundle"
          => /\ Has(last.entity, Marker(last.kind))
             /\ \A c \in DefaultSet(last.kind) :
                   Has(last.entity, c) /\ world[last.entity][c] = Component_default(c)
             /\ \A c \in MandatorySet(last.kind) :
                   Has(last.entity, c) /\ world[last.entity][c] = last.arg.comps[c])
    /\ [][(Applies(Head(queue)) /\ Head(queue).c.op \in {"Insert", "InsertIntoContainer"})
          => \A o \in Entities \ {Head(queue).c.entity} : world'[o] = world[o]]_vars

\* Bob is built from a cloned bundle after Alice's Friends has been changed
C10_Witness ==
    /\ program = "person" /\ last.op = "InsertBundle" /\ last.via = "clone"
    /\ last.entity = 2 /\ world[2]["Friends"] = <<>> /\ world[2]["Name"] = "Bob"
    /\ Has(1, Marker("Person")) /\ Has(2, Marker("Person"))
    /\ world[1]["Friends"] # <<>>

\* the entity of the wrapper a queued command was queued through
WrapperEntity(q) ==
    IF q.c.op = "InsertIntoContainer" THEN EntityKind_entity(q.c.arg) ELSE q.c.entity

\* q was queued through the wrapper a spawn_with_kind or insert_kind of the
\* running batch returned
FromKindInsertion(q) == q.from \in {"spawn_with_kind", "insert_kind"}

\* q is the KindBundle<T> insertion into e that call `from` queued
IsInsertionOf(q, e, T, from) ==
    /\ q.c.op = "InsertBundle" /\ q.c.entity = e /\ q.kind = T /\ q.via = from

\* in the queue every command queued through such a wrapper stands behind
\* the insertion its wrapper came with, or that insertion has been applied
OrderedAfterInsertion ==
    \A j \in DOMAIN queue :
        FromKindInsertion(queue[j]) =>
            \/ \E i \in 1..(j - 1) :
                  IsInsertionOf(queue[i], WrapperEntity(queue[j]), queue[j].kind,
                                queue[j].from)
            \/ /\ mode = "applying"
               /\ <<WrapperEntity(queue[j]), queue[j].kind>> \in constructed

\* the queue is applied from its head, one command after the other, and
\* execute returns with nothing left in it
AppliedInQueueOrder ==
    /\ (mode = "applying" /\ queue' # queue)
          => /\ queue' = Tail(queue)
             /\ last'.op = Head(queue).c.op /\ last'.entity = Head(queue).c.entity
    /\ (mode = "applying" /\ mode' = "idle") => queue' = <<>>
    /\ (mode = "recording" /\ mode' = "applying") => queue' = queue

\* the next command to run was queued through such a wrapper
RunsNext ==
    /\ mode = "applying" /\ ~panicked /\ queue # <<>>
    /\ FromKindInsertion(Head(queue))

CarriesKind(e, T) ==
    Has(e, Marker(T)) /\ ComponentTypes(program, T) \subseteq DOMAIN world[e]

RunsInsertIntoContainer ==
    /\ mode = "applying" /\ ~panicked /\ queue # <<>>
    /\ Head(queue).c.op = "InsertIntoContainer"
    /\ (queue' = Tail(queue) \/ panicked')

\* C12: applying insert_into_container puts the Containable item at the end
\* of the container's Items exactly when the number of items is below
\* Capacity and leaves Items as it is otherwise; it changes no other
\* component of the container and no other entity; the number of items of
\* a container never exceeds its Capacity.
C12_CapacityBound ==
    /\ [](\A e \in Entities :
             (Has(e, "Items") /\ Has(e, "Capacity"))
                 => Len(world[e]["Items"]) <= world[e]["Capacity"])
    /\ [][RunsInsertIntoContainer =>
             LET e == Head(queue).c.entity
                 item == EntityKindCommands_get([ec |-> [id |-> WrapperEntity(Head(queue))],
                                                 T |-> Head(queue).kind])
             IN  /\ \A o \in Entities \ {e} : world'[o] = world[o]
                 /\ DOMAIN world'[e] = DOMAIN world[e]
                 /\ \A c \in DOMAIN world[e] \ {"Items"} : world'[e][c] = world[e][c]
                 /\ panicked' => world' = world
                 /\ ~panicked' =>
                       LET items == world[e]["Items"]
                           after == world'[e]["Items"]
                       IN  /\ item.kind = "Containable"
                           /\ Len(items) < world[e]["Capacity"]
                                 => /\ Len(after) = Len(items) + 1
                                    /\ after[Len(after)] = item
                                    /\ SubSeq(after, 1, Len(items)) = items
                           /\ Len(items) >= world[e]["Capacity"] => after = items]_vars

\* the test's outcome: the item is in the container, which is now full
C12_Witness ==
    /\ last.op = "InsertIntoContainer" /\ ~panicked
    /\ world[last.entity]["Capacity"] = 1
    /\ Len(world[last.entity]["Items"]) = 1
    /\ world[last.entity]["Items"][1].kind = "Containable"
    /\ Has(world[last.entity]["Items"][1].id, Marker("Containable"))

====
